---- MODULE Spec2Model ----
(***************************************************************************)
(* Model of the OpenWebUI knowledge sync script:                           *)
(*   code/src/sync_knowledge.py   the reconciler and its entry point       *)
(*   code/src/owui_api.py         the HTTP client (OpenWebUIClient)        *)
(*   code/src/utils/file_utils.py the supported-file filter                *)
(* Strings are sequences of one-character strings, so that prefix tests,   *)
(* suffixes and the prettification are computed as the code computes them. *)
(***************************************************************************)
EXTENDS Integers, Sequences, FiniteSets, TLC

(***************************************************************************)
(* Characters and strings                                                  *)
(***************************************************************************)
LowerLetters ==
  <<"a","b","c","d","e","f","g","h","i","j","k","l","m",
    "n","o","p","q","r","s","t","u","v","w","x","y","z">>

UpperLetters ==
  <<"A","B","C","D","E","F","G","H","I","J","K","L","M",
    "N","O","P","Q","R","S","T","U","V","W","X","Y","Z">>

\* str.lower() on one character
lower_char(ch) ==
  IF \E i \in 1..Len(UpperLetters) : UpperLetters[i] = ch
  THEN LowerLetters[CHOOSE i \in 1..Len(UpperLetters) : UpperLetters[i] = ch]
  ELSE ch

\* str.upper() on one character
upper_char(ch) ==
  IF \E i \in 1..Len(LowerLetters) : LowerLetters[i] = ch
  THEN UpperLetters[CHOOSE i \in 1..Len(LowerLetters) : LowerLetters[i] = ch]
  ELSE ch

\* str.lower()
str_lower(s) == [i \in 1..Len(s) |-> lower_char(s[i])]

\* str.capitalize(): first character upper-cased, the rest lower-cased
str_capitalize(w) ==
  [i \in 1..Len(w) |-> IF i = 1 THEN upper_char(w[i]) ELSE lower_char(w[i])]

\* str.replace(old, new) for single characters
str_replace(s, old, new) == [i \in 1..Len(s) |-> IF s[i] = old THEN new ELSE s[i]]

\* str.startswith(prefix)
str_startswith(s, prefix) ==
  /\ Len(prefix) <= Len(s)
  /\ \A i \in 1..Len(prefix) : s[i] = prefix[i]

\* str.split(): split on runs of whitespace, no empty words
RECURSIVE split_from(_, _, _, _)
split_from(s, i, cur, acc) ==
  IF i > Len(s)
  THEN IF cur = <<>> THEN acc ELSE Append(acc, cur)
  ELSE IF s[i] = " "
       THEN split_from(s, i + 1, <<>>, IF cur = <<>> THEN acc ELSE Append(acc, cur))
       ELSE split_from(s, i + 1, Append(cur, s[i]), acc)

str_split(s) == split_from(s, 1, <<>>, <<>>)

\* sep.join(words)
RECURSIVE str_join(_, _)
str_join(sep, words) ==
  IF words = <<>> THEN <<>>
  ELSE IF Len(words) = 1 THEN words[1]
  ELSE words[1] \o sep \o str_join(sep, Tail(words))

\* os.sep
os_sep == "/"

(***************************************************************************)
(* sync_knowledge.py: prettify_name                                        *)
(***************************************************************************)
\* a prettify that upper-cases the first letter of a word and keeps the rest
prettify_name_keep_case(name) ==
  LET replaced == str_replace(str_replace(name, "-", " "), "_", " ")
      words == str_split(replaced)
  IN  str_join(<<" ">>, [i \in 1..Len(words) |->
                           [j \in 1..Len(words[i]) |->
                              IF j = 1 THEN upper_char(words[i][j]) ELSE words[i][j]]])

prettify_name(name) ==
  LET replaced == str_replace(str_replace(name, "-", " "), "_", " ")
      words == str_split(replaced)
  IN  str_join(<<" ">>, [i \in 1..Len(words) |-> str_capitalize(words[i])])

(***************************************************************************)
(* file_utils.py: the supported-file filter                                *)
(***************************************************************************)
SUPPORTED_EXTENSIONS == {
    <<".","t","x","t">>, <<".","m","d">>,
    <<".","m","a","r","k","d","o","w","n">>, <<".","r","s","t">>,
    <<".","r","t","f">>, <<".","p","d","f">>, <<".","d","o","c">>,
    <<".","d","o","c","x">>, <<".","p","p","t">>, <<".","p","p","t","x">>,
    <<".","x","l","s">>, <<".","x","l","s","x">>, <<".","p","y">>,
    <<".","j","s">>, <<".","j","a","v","a">>, <<".","c">>,
    <<".","c","p","p">>, <<".","h">>, <<".","h","p","p">>, <<".","c","s">>,
    <<".","p","h","p">>, <<".","r","b">>, <<".","g","o">>,
    <<".","h","t","m","l">>, <<".","h","t","m">>, <<".","c","s","s">>,
    <<".","x","m","l">>, <<".","j","s","o","n">>, <<".","y","a","m","l">>,
    <<".","y","m","l">>, <<".","c","s","v">>, <<".","t","s","v">>
  }

\* Path.suffix of a final path component: the text from the last dot on,
\* empty when there is no dot, or the only dot is first or last
path_suffix(name) ==
  LET dots == {i \in 1..Len(name) : name[i] = "."}
  IN  IF dots = {} THEN <<>>
      ELSE LET i == CHOOSE k \in dots : \A j \in dots : j <= k
           IN  IF i > 1 /\ i < Len(name) THEN SubSeq(name, i, Len(name)) ELSE <<>>

\* A local regular file is [comps |-> path components below the scan root,
\* size |-> st_size]
path_name(f) == f.comps[Len(f.comps)]

\* a filter that lets zero-byte files through
is_supported_file_any_size(f) ==
  IF str_startswith(path_name(f), <<".">>) THEN FALSE
  ELSE IF str_lower(path_suffix(path_name(f))) \notin SUPPORTED_EXTENSIONS THEN FALSE
  ELSE TRUE

is_supported_file(f) ==
  IF str_startswith(path_name(f), <<".">>) THEN FALSE
  ELSE IF str_lower(path_suffix(path_name(f))) \notin SUPPORTED_EXTENSIONS THEN FALSE
  ELSE IF f.size = 0 THEN FALSE
  ELSE TRUE

\* str(Path): the components joined by os.sep
path_str(comps) == str_join(<<os_sep>>, comps)

\* os.path.basename of a path string
path_basename(s) ==
  LET seps == {i \in 1..Len(s) : s[i] = os_sep}
  IN  IF seps = {} THEN s
      ELSE SubSeq(s, (CHOOSE k \in seps : \A j \in seps : j <= k) + 1, Len(s))

(***************************************************************************)
(* The transport: what one session.request can produce.                    *)
(* raised: requests.exceptions.RequestException (connection error, ...).   *)
(* Otherwise a response with a status code, whether its Location header    *)
(* names the access gateway (cloudflareaccess.com), whether the body       *)
(* parses as JSON, and the shape of the parsed JSON.                       *)
(***************************************************************************)
Raised      == [raised |-> TRUE,  status |-> 0,   gateway |-> FALSE, json |-> FALSE, shape |-> "other"]
Ok200       == [raised |-> FALSE, status |-> 200, gateway |-> FALSE, json |-> TRUE,  shape |-> "plain"]
Wrapped200  == [raised |-> FALSE, status |-> 200, gateway |-> FALSE, json |-> TRUE,  shape |-> "wrapped"]
Other200    == [raised |-> FALSE, status |-> 200, gateway |-> FALSE, json |-> TRUE,  shape |-> "other"]
Garbage200  == [raised |-> FALSE, status |-> 200, gateway |-> FALSE, json |-> FALSE, shape |-> "other"]
Redirect302 == [raised |-> FALSE, status |-> 302, gateway |-> TRUE,  json |-> FALSE, shape |-> "other"]
Moved302    == [raised |-> FALSE, status |-> 302, gateway |-> FALSE, json |-> FALSE, shape |-> "other"]
Err500      == [raised |-> FALSE, status |-> 500, gateway |-> FALSE, json |-> FALSE, shape |-> "other"]

SendOutcomes ==
  {Raised, Ok200, Wrapped200, Other200, Garbage200, Redirect302, Moved302, Err500}

\* what the gateway's token and certs endpoints can answer
AuthOutcomes == {Raised, Ok200, Err500}

\* A script fixes the answers to the sends of one _make_request: the
\* request, the two handshake requests, the retried request.  The parts a
\* script does not reach are fixed, so that equal behaviours are one script.
Scripts ==
  {[first |-> f, token |-> Ok200, certs |-> Ok200, retry |-> Ok200] :
      f \in SendOutcomes}
  \cup
  {[first |-> Redirect302, token |-> t, certs |-> c, retry |-> r] :
      t \in AuthOutcomes, c \in AuthOutcomes, r \in SendOutcomes}

CleanScript == [first |-> Ok200, token |-> Ok200, certs |-> Ok200, retry |-> Ok200]

\* Exception classes; HTTPError is a RequestException
is_instance(exc, cls) ==
  \/ exc = cls
  \/ cls = "Exception"
  \/ exc = "HTTPError" /\ cls = "RequestException"

\* Response.raise_for_status(): HTTPError for 4xx and 5xx only
raise_for_status(response) ==
  IF response.status >= 400 /\ response.status < 600 THEN "HTTPError" ELSE "none"

(***************************************************************************)
(* owui_api.py: the gateway handshake and _make_request                    *)
(***************************************************************************)
\* one request put on the wire and what came back
Sent(to, got) == [to |-> to, got |-> got]

\* creds: cf_client_id and cf_client_secret are both set.
\* Returns whether the handshake succeeded and the requests it sent.
_authenticate_cloudflare_access(creds, script) ==
  IF ~creds THEN [ok |-> FALSE, sends |-> <<>>]
  ELSE IF script.token.raised
  THEN [ok |-> FALSE, sends |-> <<Sent("token", script.token)>>]
  ELSE IF script.certs.raised
  THEN [ok |-> FALSE,
        sends |-> <<Sent("token", script.token), Sent("certs", script.certs)>>]
  ELSE [ok |-> script.token.status = 200 \/ script.certs.status = 200,
        sends |-> <<Sent("token", script.token), Sent("certs", script.certs)>>]

\* a handler that reports the redirect as handled whatever the handshake gave
_handle_cloudflare_redirect_always(creds, response, script) ==
  IF response.status = 302 /\ response.gateway
  THEN LET auth == _authenticate_cloudflare_access(creds, script)
       IN  [handled |-> TRUE, sends |-> auth.sends]
  ELSE [handled |-> FALSE, sends |-> <<>>]

_handle_cloudflare_redirect(creds, response, script) ==
  IF response.status = 302 /\ response.gateway
  THEN LET auth == _authenticate_cloudflare_access(creds, script)
       IN  [handled |-> auth.ok, sends |-> auth.sends]
  ELSE [handled |-> FALSE, sends |-> <<>>]

\* Returns the exception that leaves _make_request ("none" when it returns),
\* the response it returns, and the requests it sent, in order
\* ("request" is the original request).
_make_request(creds, script) ==
  IF script.first.raised
  THEN [exc |-> "RequestException", response |-> Raised,
        sends |-> <<Sent("request", script.first)>>]
  ELSE LET h == _handle_cloudflare_redirect(creds, script.first, script)
           retried == <<Sent("request", script.first)>> \o h.sends
                      \o <<Sent("request", script.retry)>>
       IN  IF h.handled
           THEN IF script.retry.raised
                THEN [exc |-> "RequestException", response |-> Raised, sends |-> retried]
                ELSE [exc |-> "none", response |-> script.retry, sends |-> retried]
           ELSE [exc |-> "none", response |-> script.first,
                 sends |-> <<Sent("request", script.first)>> \o h.sends]

\* _make_request followed by response.raise_for_status()
request_checked(creds, script) ==
  LET req == _make_request(creds, script)
  IN  IF req.exc # "none" THEN req
      ELSE [req EXCEPT !.exc = raise_for_status(req.response)]

\* The remote service carries out a request it answers with a 2xx status
Served(req) == req.exc = "none" /\ req.response.status >= 200 /\ req.response.status < 300

(***************************************************************************)
(* The remote service.  A remote state is                                  *)
(*   [colls |-> id :> [name, file_ids], files |-> id :> [filename],        *)
(*    next_coll, next_file]   (ids are assigned by the service, in order). *)
(* JSON objects are functions on their keys.                               *)
(***************************************************************************)
EmptyDict == [k \in {} |-> 0]

\* a JSON object of an unexpected shape (no "id", "files" or "data" key)
OtherDict == [detail |-> "unexpected"]

\* A file argument is a string: a remote file id or a local path
NoRef       == [kind |-> "none", id |-> 0, path |-> <<>>]
FileId(n)   == [kind |-> "id",   id |-> n, path |-> <<>>]
PathRef(s)  == [kind |-> "path", id |-> 0, path |-> s]

RECURSIVE SortedIds(_)
SortedIds(S) ==
  IF S = {} THEN <<>>
  ELSE LET m == CHOOSE x \in S : \A y \in S : x <= y
       IN  <<m>> \o SortedIds(S \ {m})

\* body of GET /api/knowledge
coll_listing(rem) ==
  LET ids == SortedIds(DOMAIN rem.colls)
  IN  [i \in 1..Len(ids) |-> [id |-> ids[i], name |-> rem.colls[ids[i]].name]]

\* body of GET /api/files
file_listing(rem) ==
  LET ids == SortedIds(DOMAIN rem.files)
  IN  [i \in 1..Len(ids) |-> [id |-> ids[i], filename |-> rem.files[ids[i]].filename]]

\* body of GET /api/knowledge/{id}, in either of the service's two shapes
coll_detail(rem, cid, shape) ==
  IF cid \notin DOMAIN rem.colls THEN OtherDict
  ELSE IF shape = "plain"
       THEN [id |-> cid, name |-> rem.colls[cid].name,
             files |-> {[id |-> f] : f \in rem.colls[cid].file_ids}]
  ELSE IF shape = "wrapped"
       THEN [id |-> cid, name |-> rem.colls[cid].name,
             data |-> [file_ids |-> rem.colls[cid].file_ids]]
  ELSE OtherDict

\* the requests the service can carry out in a remote state
ValidRequest(rem, op, coll, ref) ==
  CASE op = "GET /api/knowledge/{id}" -> coll \in DOMAIN rem.colls
    [] op = "DELETE /api/knowledge/{id}" -> coll \in DOMAIN rem.colls
    [] op = "DELETE /api/files/{id}" -> ref.kind = "id" /\ ref.id \in DOMAIN rem.files
    [] op = "POST /api/knowledge/{id}/files" ->
         coll \in DOMAIN rem.colls /\ ref.kind = "id" /\ ref.id \in DOMAIN rem.files
    [] op = "DELETE /api/knowledge/{id}/files/{file_id}" ->
         coll \in DOMAIN rem.colls /\ ref.kind = "id" /\ ref.id \in rem.colls[coll].file_ids
    [] OTHER -> TRUE

\* the effect of a request the service carries out
Serve(rem, op, coll, ref, arg) ==
  CASE op = "POST /api/knowledge" ->
         [rem EXCEPT !.colls = [c \in DOMAIN rem.colls \cup {rem.next_coll} |->
                                  IF c = rem.next_coll
                                  THEN [name |-> arg, file_ids |-> {}]
                                  ELSE rem.colls[c]],
                     !.next_coll = rem.next_coll + 1]
    [] op = "POST /api/files/upload" ->
         [rem EXCEPT !.files = [f \in DOMAIN rem.files \cup {rem.next_file} |->
                                  IF f = rem.next_file
                                  THEN [filename |-> path_basename(arg)]
                                  ELSE rem.files[f]],
                     !.next_file = rem.next_file + 1]
    [] op = "POST /api/knowledge/{id}/files" ->
         [rem EXCEPT !.colls[coll].file_ids = @ \cup {ref.id}]
    [] op = "DELETE /api/knowledge/{id}/files/{file_id}" ->
         [rem EXCEPT !.colls[coll].file_ids = @ \ {ref.id}]
    [] op = "DELETE /api/knowledge/{id}" ->
         [rem EXCEPT !.colls = [c \in DOMAIN rem.colls \ {coll} |-> rem.colls[c]]]
    [] op = "DELETE /api/files/{id}" ->
         [rem EXCEPT !.files = [f \in DOMAIN rem.files \ {ref.id} |-> rem.files[f]],
                     !.colls = [c \in DOMAIN rem.colls |->
                                  [rem.colls[c] EXCEPT !.file_ids = @ \ {ref.id}]]]
    [] OTHER -> rem

\* Headers are functions from header names to values.
\* _setup_session: the default headers of the session
_setup_session(creds) ==
  LET cf == IF creds
            THEN [k \in {"CF-Access-Client-Id", "CF-Access-Client-Secret"} |-> "cf"]
            ELSE [k \in {} |-> ""]
  IN  [k \in {"Authorization", "Content-Type", "Accept"} |->
         IF k = "Authorization" THEN "Bearer jwt" ELSE "application/json"] @@ cf

_get_headers(for_file_upload) ==
  IF ~for_file_upload
  THEN [k \in {"Content-Type"} |-> "application/json"]
  ELSE [k \in {} |-> ""]

\* the headers argument an operation passes to _make_request: upload_file
\* passes _get_headers(for_file_upload=True), the others pass none
call_headers(op) ==
  IF op = "POST /api/files/upload" THEN _get_headers(TRUE) ELSE [k \in {} |-> ""]

\* kwargs['headers'] as _make_request hands it to session.request
request_headers(creds, headers) ==
  LET auth == IF "Authorization" \in DOMAIN headers THEN headers
              ELSE headers @@ [k \in {"Authorization"} |-> "Bearer jwt"]
  IN  IF creds
      THEN [k \in {"CF-Access-Client-Id", "CF-Access-Client-Secret"} |-> "cf"] @@ auth
      ELSE auth

\* session.request: the headers of the request override the session's
\* defaults, and the defaults the request does not name are kept
merged_headers(session, request) ==
  [k \in DOMAIN session \cup DOMAIN request |->
     IF k \in DOMAIN request THEN request[k] ELSE session[k]]

\* One HTTP exchange of the client, as the remote side and the log see it
HttpCall(op, coll, ref, arg, req) ==
  [op |-> op, coll |-> coll, ref |-> ref, arg |-> arg, headers |-> call_headers(op),
   sends |-> req.sends, response |-> req.response, served |-> Served(req)]

\* the remote state after the exchange
After(rem, call) ==
  IF call.served THEN Serve(rem, call.op, call.coll, call.ref, call.arg) ELSE rem

\* a script the service can play for this request: it answers 2xx only to
\* a request it can carry out
Playable(rem, creds, script, op, coll, ref) ==
  Served(_make_request(creds, script)) => ValidRequest(rem, op, coll, ref)

\* the exception that leaves a try block whose except clauses catch classes
leaves(exc, classes) ==
  IF exc = "none" \/ \E c \in classes : is_instance(exc, c) THEN "none" ELSE exc

(***************************************************************************)
(* owui_api.py: the operations of OpenWebUIClient.                         *)
(* Each takes the client's credentials flag, the script the transport      *)
(* plays and the remote state, and returns                                 *)
(*   raises: the exception that leaves the method ("none" when it returns) *)
(*   value:  what it returns                                               *)
(*   http:   the HTTP exchanges it made, in order                          *)
(*   remote: the remote state afterwards.                                  *)
(***************************************************************************)
\* the list-or-{"data": list} envelope of the two list operations
unwrap_list(response, data) ==
  IF ~response.json THEN <<>>                       \* except ValueError
  ELSE IF response.shape = "plain" THEN data        \* isinstance(data, list)
  ELSE IF response.shape = "wrapped" THEN data      \* data['data']
  ELSE <<>>

\* response.json() of an operation that returns the parsed object
parse_object(response, object) ==
  IF ~response.json THEN EmptyDict                  \* except ValueError
  ELSE IF response.shape = "plain" THEN object
  ELSE OtherDict

get_knowledge_collections(creds, script, rem) ==
  LET req  == request_checked(creds, script)
      call == HttpCall("GET /api/knowledge", 0, NoRef, <<>>, req)
  IN  [raises |-> leaves(req.exc, {"RequestException"}),
       value  |-> IF req.exc # "none" THEN <<>>
                  ELSE unwrap_list(req.response, coll_listing(rem)),
       http   |-> <<call>>,
       remote |-> After(rem, call)]

get_knowledge_collection(creds, script, rem, collection_id) ==
  LET req  == request_checked(creds, script)
      call == HttpCall("GET /api/knowledge/{id}", collection_id, NoRef, <<>>, req)
  IN  [raises |-> leaves(req.exc, {"RequestException"}),
       value  |-> IF req.exc # "none" THEN EmptyDict
                  ELSE IF ~req.response.json THEN EmptyDict
                  ELSE coll_detail(rem, collection_id, req.response.shape),
       http   |-> <<call>>,
       remote |-> After(rem, call)]

create_knowledge_collection(creds, script, rem, name) ==
  LET req  == request_checked(creds, script)
      call == HttpCall("POST /api/knowledge", 0, NoRef, name, req)
  IN  [raises |-> leaves(req.exc, {"RequestException"}),
       value  |-> IF req.exc # "none" THEN EmptyDict
                  ELSE parse_object(req.response, [id |-> rem.next_coll, name |-> name]),
       http   |-> <<call>>,
       remote |-> After(rem, call)]

delete_knowledge_collection(creds, script, rem, collection_id) ==
  LET req  == request_checked(creds, script)
      call == HttpCall("DELETE /api/knowledge/{id}", collection_id, NoRef, <<>>, req)
  IN  [raises |-> leaves(req.exc, {"RequestException"}),
       value  |-> req.exc = "none",
       http   |-> <<call>>,
       remote |-> After(rem, call)]

get_files(creds, script, rem) ==
  LET req  == request_checked(creds, script)
      call == HttpCall("GET /api/files", 0, NoRef, <<>>, req)
  IN  [raises |-> leaves(req.exc, {"RequestException"}),
       value  |-> IF req.exc # "none" THEN <<>>
                  ELSE unwrap_list(req.response, file_listing(rem)),
       http   |-> <<call>>,
       remote |-> After(rem, call)]

\* readable: open(file_path, 'rb') succeeds
upload_file(creds, script, rem, file_path, readable) ==
  IF ~readable
  THEN [raises |-> leaves("IOError", {"RequestException", "IOError"}),
        value |-> EmptyDict, http |-> <<>>, remote |-> rem]
  ELSE
  LET req  == request_checked(creds, script)
      call == HttpCall("POST /api/files/upload", 0, NoRef, file_path, req)
  IN  [raises |-> leaves(req.exc, {"RequestException", "IOError"}),
       value  |-> IF req.exc # "none" THEN EmptyDict
                  ELSE parse_object(req.response,
                         [id |-> rem.next_file, filename |-> path_basename(file_path)]),
       http   |-> <<call>>,
       remote |-> After(rem, call)]

delete_file(creds, script, rem, file_id) ==
  LET req  == request_checked(creds, script)
      call == HttpCall("DELETE /api/files/{id}", 0, file_id, <<>>, req)
  IN  [raises |-> leaves(req.exc, {"RequestException"}),
       value  |-> req.exc = "none",
       http   |-> <<call>>,
       remote |-> After(rem, call)]

\* an attach that is sent to the endpoint that removes the file
attach_request_delete(creds, script, rem, collection_id, file_id) ==
  LET req  == request_checked(creds, script)
      call == HttpCall("DELETE /api/knowledge/{id}/files/{file_id}",
                       collection_id, file_id, <<>>, req)
  IN  [raises |-> leaves(req.exc, {"RequestException"}),
       value  |-> req.exc = "none",
       http   |-> <<call>>,
       remote |-> After(rem, call)]

\* the POST of add_file_to_knowledge, once file_id is known
attach_request(creds, script, rem, collection_id, file_id) ==
  LET req  == request_checked(creds, script)
      call == HttpCall("POST /api/knowledge/{id}/files", collection_id, file_id, <<>>, req)
  IN  [raises |-> leaves(req.exc, {"RequestException"}),
       value  |-> req.exc = "none",
       http   |-> <<call>>,
       remote |-> After(rem, call)]

\* an attach that never looks whether its argument is a local file
add_file_to_knowledge_no_upload(creds, up_script, script, rem, collection_id, file_id_or_path, fs) ==
  attach_request(creds, script, rem, collection_id, file_id_or_path)

\* fs: the local paths for which os.path.isfile holds.
\* up_script and script are played for the upload and for the attach.
add_file_to_knowledge(creds, up_script, script, rem, collection_id, file_id_or_path, fs) ==
  IF file_id_or_path.kind = "path" /\ file_id_or_path.path \in fs
  THEN LET up == upload_file(creds, up_script, rem, file_id_or_path.path, TRUE)
       IN  IF up.raises # "none" THEN up
           ELSE IF DOMAIN up.value = {} \/ "id" \notin DOMAIN up.value
           THEN [up EXCEPT !.value = FALSE]
           ELSE LET at == attach_request(creds, script, up.remote, collection_id,
                                         FileId(up.value.id))
                IN  [at EXCEPT !.http = up.http \o at.http]
  ELSE attach_request(creds, script, rem, collection_id, file_id_or_path)

remove_file_from_knowledge(creds, script, rem, collection_id, file_id) ==
  LET req  == request_checked(creds, script)
      call == HttpCall("DELETE /api/knowledge/{id}/files/{file_id}",
                       collection_id, file_id, <<>>, req)
  IN  [raises |-> leaves(req.exc, {"RequestException"}),
       value  |-> req.exc = "none",
       http   |-> <<call>>,
       remote |-> After(rem, call)]

(***************************************************************************)
(* Bounds of the model and the inputs it is run on                         *)
(***************************************************************************)
\* remote calls that may go wrong, over all runs of one behaviour
MaxFaults == 1

\* the runs of the script: one run, and two runs in
\* succession or racing
Procs == {1, 2}

\* directory and file names of the local trees
d_cd  == <<"c", "-", "d">>
d_c_d == <<"c", "_", "d">>
d_a   == <<"a">>
d_ab  == <<"a", "b">>
d_e   == <<"E">>
f_r   == <<"r", ".", "p", "d", "f">>
f_n   == <<"n", ".", "t", "x", "t">>
f_x   == <<"x", ".", "M", "D">>
f_t   == <<"t", ".", "m", "d">>
f_h   == <<".", "h", ".", "m", "d">>
f_z   == <<"z", ".", "m", "d">>
f_q   == <<"q", ".", "e", "x", "e">>
f_o   == <<"o", ".", "m", "d">>
d_s   == <<"s">>

\* A local tree: the top-level directories of the scan root, the regular
\* files below it, and the paths the process is denied access to
TreeCareer ==
  [dirs  |-> {d_cd},
   denied |-> {},
   files |-> {[comps |-> <<d_cd, f_r>>, size |-> 1],
              [comps |-> <<d_cd, f_n>>, size |-> 2]}]

TreeMixed ==
  [dirs  |-> {d_a, d_ab},
   denied |-> {},
   files |-> {[comps |-> <<d_a, f_x>>, size |-> 1],
              [comps |-> <<d_ab, d_s, f_x>>, size |-> 1],
              [comps |-> <<f_t>>, size |-> 1],
              [comps |-> <<d_a, f_h>>, size |-> 1],
              [comps |-> <<d_ab, f_z>>, size |-> 0],
              [comps |-> <<d_a, d_s, f_q>>, size |-> 1]}]

TreeSameName ==
  [dirs  |-> {d_cd, d_c_d},
   denied |-> {},
   files |-> {[comps |-> <<d_cd, f_n>>, size |-> 1],
              [comps |-> <<d_c_d, f_r>>, size |-> 1]}]

TreeEmptyDir ==
  [dirs  |-> {d_e, d_cd},
   denied |-> {},
   files |-> {[comps |-> <<d_e, f_z>>, size |-> 0],
              [comps |-> <<d_e, f_q>>, size |-> 1],
              [comps |-> <<d_cd, f_n>>, size |-> 1]}]

LocalTrees == {TreeCareer, TreeMixed, TreeSameName, TreeEmptyDir}

\* trees with a path the process is denied: a directory that cannot be
\* listed, a file that cannot be opened
TreeDeniedDir ==
  [dirs  |-> {d_cd},
   denied |-> {<<d_cd, d_s>>},
   files |-> {[comps |-> <<d_cd, f_n>>, size |-> 1],
              [comps |-> <<d_cd, d_s, f_r>>, size |-> 1]}]

TreeDeniedFile ==
  [dirs  |-> {d_cd},
   denied |-> {<<d_cd, f_r>>},
   files |-> {[comps |-> <<d_cd, f_n>>, size |-> 1],
              [comps |-> <<d_cd, f_r>>, size |-> 1]}]

DeniedTrees == {TreeDeniedDir, TreeDeniedFile}

RemoteEmpty ==
  [colls |-> [c \in {} |-> 0], files |-> [f \in {} |-> 0],
   next_coll |-> 1, next_file |-> 1]

\* a collection "C D" holding a file that no local tree has, and unattached
\* files with the names r.pdf (twice) and x.MD
RemoteSeeded ==
  [colls |-> (1 :> [name |-> prettify_name(d_cd), file_ids |-> {1}]),
   files |-> (1 :> [filename |-> f_o] @@ 2 :> [filename |-> f_r]
              @@ 3 :> [filename |-> f_x] @@ 4 :> [filename |-> f_r]),
   next_coll |-> 2, next_file |-> 5]

InitialRemotes == {RemoteEmpty, RemoteSeeded}

\* The scripts the reconciler's calls are run on: one per answer to the
\* request.  With credentials a gateway redirect is followed by a handshake
\* and a retry that succeed; without them it is the final answer, as it is
\* after a failed handshake or a second redirect.
SyncScripts == {s \in Scripts : s.token = Ok200 /\ s.certs = Ok200 /\ s.retry = Ok200}

Cost(script) == IF script = CleanScript THEN 0 ELSE 1

(***************************************************************************)
(* State                                                                   *)
(***************************************************************************)
VARIABLES
  mode,                 \* "sequential": a run starts when the previous one has
                        \* exited; "concurrent": runs overlap
  cf_creds,             \* the config sets cf_client_id and cf_client_secret
  tree,                 \* the local tree below --base-dir
  remote,               \* the state of the remote service
  faults,               \* remote calls that went wrong so far
  pc,                   \* per run: where main() is
  exit_code,            \* per run: the exit status, -1 while it runs
  reason,               \* per run: why it exited
  before,               \* per run: the remote state when it started
  local_files,          \* per run: sync_knowledge's local_files
  remote_files,         \* per run: sync_knowledge's remote_files
  remote_collections,   \* per run: sync_knowledge's remote_collections
  todo_dirs,            \* per run: directories iterdir() has yet to yield
  item,                 \* per run: the directory sync_collection works on
  collection_id,        \* per run: sync_collection's collection_id
  collection_file_ids,  \* per run: sync_collection's collection_file_ids
  todo_files,           \* per run: collection_local_files yet to be synced
  synced,               \* per run: the <<directory, rel_path>> given to sync_file
  calls,                \* per run: the remote calls it made, in order
  last                  \* the client operation called on its own

run_vars ==
  <<pc, exit_code, reason, before, local_files, remote_files, remote_collections,
    todo_dirs, item, collection_id, collection_file_ids, todo_files, synced, calls>>

vars == <<mode, cf_creds, tree, remote, faults, run_vars, last>>

\* --base-dir
base_dir == <<"k", "b">>

\* os.path.isfile holds for the regular files of the tree
LocalPaths(t) == {path_str(<<base_dir>> \o f.comps) : f \in t.files}

NoLast ==
  [op |-> "none", coll |-> 0, ref |-> NoRef, raises |-> "none", value |-> FALSE,
   http |-> <<>>, script |-> CleanScript, up_script |-> CleanScript]

InitRuns ==
  /\ pc = [p \in Procs |-> "idle"]
  /\ exit_code = [p \in Procs |-> -1]
  /\ reason = [p \in Procs |-> "none"]
  /\ before = [p \in Procs |-> RemoteEmpty]
  /\ local_files = [p \in Procs |-> EmptyDict]
  /\ remote_files = [p \in Procs |-> <<>>]
  /\ remote_collections = [p \in Procs |-> EmptyDict]
  /\ todo_dirs = [p \in Procs |-> {}]
  /\ item = [p \in Procs |-> <<>>]
  /\ collection_id = [p \in Procs |-> 0]
  /\ collection_file_ids = [p \in Procs |-> {}]
  /\ todo_files = [p \in Procs |-> {}]
  /\ synced = [p \in Procs |-> {}]
  /\ calls = [p \in Procs |-> <<>>]

Init ==
  /\ mode = "sequential"
  /\ cf_creds \in BOOLEAN
  /\ tree \in LocalTrees
  /\ remote \in InitialRemotes
  /\ faults = 0
  /\ InitRuns
  /\ last = NoLast

\* a scan that also keeps the zero-byte files
get_local_files_any_size(t) ==
  LET kept == {f \in t.files : is_supported_file_any_size(f)}
  IN  [rp \in {path_str(f.comps) : f \in kept} |->
         [path |-> path_str(<<base_dir>>) \o <<os_sep>> \o rp]]

(***************************************************************************)
(* sync_knowledge.py: the scanner and the two snapshots                    *)
(***************************************************************************)
\* os.walk(directory), lines 58-59: the files of the directories it can
\* list; a directory whose listing fails is left out with all below it, and
\* the walk goes on (no onerror is given)
walked(t) ==
  {f \in t.files :
     \A n \in 1..(Len(f.comps) - 1) : SubSeq(f.comps, 1, n) \notin t.denied}

\* get_file_hash, lines 36-39: open() raises for a file the process is
\* denied, and nothing in get_local_files catches it
get_local_files_raises(t) ==
  IF \E f \in walked(t) : is_supported_file(f) /\ f.comps \in t.denied
  THEN "PermissionError" ELSE "none"

\* rel_path -> {'path': ...} for every supported regular file of the tree
get_local_files(t) ==
  LET kept == {f \in walked(t) : is_supported_file(f)}
  IN  [rp \in {path_str(f.comps) : f \in kept} |->
         [path |-> path_str(<<base_dir>>) \o <<os_sep>> \o rp]]

\* the listed files that have an id, in listing order
RECURSIVE with_id(_)
with_id(files) ==
  IF files = <<>> THEN <<>>
  ELSE IF files[1].id # 0 THEN <<files[1]>> \o with_id(Tail(files))
  ELSE with_id(Tail(files))

get_remote_files(listing) == with_id(listing)

\* name -> collection; a later listing entry replaces an earlier one of
\* the same name
get_remote_collections(response) ==
  [n \in {response[i].name : i \in 1..Len(response)} |->
     response[CHOOSE i \in 1..Len(response) :
                /\ response[i].name = n
                /\ \A j \in 1..Len(response) : response[j].name = n => j <= i]]

\* the remote calls of one client operation, as the run's log keeps them
Logged(http, d, rp) ==
  [i \in 1..Len(http) |->
     [op |-> http[i].op, coll |-> http[i].coll, ref |-> http[i].ref,
      arg |-> http[i].arg, response |-> http[i].response,
      served |-> http[i].served, item |-> d, rel_path |-> rp]]

\* an exit that always reports success
Exits_with_zero(p, code, why) ==
  /\ pc' = [pc EXCEPT ![p] = "exited"]
  /\ exit_code' = [exit_code EXCEPT ![p] = 0]
  /\ reason' = [reason EXCEPT ![p] = why]

\* the process exits with status code
Exits(p, code, why) ==
  /\ pc' = [pc EXCEPT ![p] = "exited"]
  /\ exit_code' = [exit_code EXCEPT ![p] = code]
  /\ reason' = [reason EXCEPT ![p] = why]

(***************************************************************************)
(* sync_knowledge.py: main, sync_knowledge, sync_collection, sync_file.    *)
(* One action per remote call: the calls are the points where a run blocks *)
(* and another run can act.                                                *)
(***************************************************************************)
ConfigInputs  == {"ok", "missing", "malformed"}
BaseDirInputs == {"dir", "missing", "file"}

\* the remote calls that may go wrong in one behaviour: runs that race are
\* followed with a transport that answers every call
FaultBudget == IF mode = "concurrent" THEN 0 ELSE MaxFaults

MayStart(p) ==
  \/ mode = "concurrent"
  \/ \A q \in Procs : q < p => pc[q] = "exited"

\* the variable v without the locals of the runs that have exited: the
\* memory of a process is gone when it exits
Forget(v, empty) == [q \in Procs |-> IF pc[q] = "exited" THEN empty ELSE v[q]]

\* main() up to the first remote call: load the config, build the client,
\* check --base-dir, scan the local tree
Main(p) ==
  /\ pc[p] = "idle"
  /\ MayStart(p)
  /\ \E config \in ConfigInputs, dir \in BaseDirInputs :
       IF config # "ok"
       THEN /\ Exits(p, 1, "config")
            /\ local_files' = Forget(local_files, EmptyDict)
            /\ UNCHANGED before
       ELSE IF dir # "dir"
       THEN /\ Exits(p, 1, "base_dir")
            /\ local_files' = Forget(local_files, EmptyDict)
            /\ UNCHANGED before
       ELSE IF get_local_files_raises(tree) # "none"
       THEN \* the exception leaves sync_knowledge and main
            /\ Exits(p, 1, get_local_files_raises(tree))
            /\ local_files' = Forget(local_files, EmptyDict)
            /\ before' = [before EXCEPT ![p] = remote]
       ELSE /\ pc' = [pc EXCEPT ![p] = "get_remote_files"]
            /\ local_files' =
                 [Forget(local_files, EmptyDict) EXCEPT ![p] = get_local_files(tree)]
            /\ before' = [before EXCEPT ![p] = remote]
            /\ UNCHANGED <<exit_code, reason>>
  /\ remote_files' = Forget(remote_files, <<>>)
  /\ remote_collections' = Forget(remote_collections, EmptyDict)
  /\ todo_dirs' = Forget(todo_dirs, {})
  /\ item' = Forget(item, <<>>)
  /\ collection_id' = Forget(collection_id, 0)
  /\ collection_file_ids' = Forget(collection_file_ids, {})
  /\ todo_files' = Forget(todo_files, {})
  /\ synced' = Forget(synced, {})
  /\ calls' = Forget(calls, <<>>)
  /\ UNCHANGED <<mode, cf_creds, tree, remote, faults, last>>

GetRemoteFiles(p) ==
  /\ pc[p] = "get_remote_files"
  /\ \E script \in SyncScripts :
       /\ faults + Cost(script) <= FaultBudget
       /\ LET r == get_files(cf_creds, script, remote)
          IN  /\ remote_files' = [remote_files EXCEPT ![p] = get_remote_files(r.value)]
              /\ calls' = [calls EXCEPT ![p] = @ \o Logged(r.http, <<>>, <<>>)]
              /\ remote' = r.remote
       /\ faults' = faults + Cost(script)
  /\ pc' = [pc EXCEPT ![p] = "get_remote_collections"]
  /\ UNCHANGED <<mode, cf_creds, tree, exit_code, reason, before, local_files,
                 remote_collections, todo_dirs, item, collection_id,
                 collection_file_ids, todo_files, synced, last>>

\* the loop over base_dir.iterdir() goes on, or sync_knowledge and main return
Continue(p, dirs_left, files_left) ==
  IF files_left # {}
  THEN pc' = [pc EXCEPT ![p] = "files"] /\ UNCHANGED <<exit_code, reason>>
  ELSE IF dirs_left # {}
  THEN pc' = [pc EXCEPT ![p] = "dirs"] /\ UNCHANGED <<exit_code, reason>>
  ELSE Exits(p, 0, "none")

GetRemoteCollections(p) ==
  /\ pc[p] = "get_remote_collections"
  /\ \E script \in SyncScripts :
       /\ faults + Cost(script) <= FaultBudget
       /\ LET r == get_knowledge_collections(cf_creds, script, remote)
          IN  /\ remote_collections' =
                   [remote_collections EXCEPT ![p] = get_remote_collections(r.value)]
              /\ calls' = [calls EXCEPT ![p] = @ \o Logged(r.http, <<>>, <<>>)]
              /\ remote' = r.remote
       /\ faults' = faults + Cost(script)
  /\ todo_dirs' = [todo_dirs EXCEPT ![p] = tree.dirs]
  /\ Continue(p, tree.dirs, {})
  /\ UNCHANGED <<mode, cf_creds, tree, before, local_files, remote_files, item,
                 collection_id, collection_file_ids, todo_files, synced, last>>

\* a check that also asks the service whether the name is taken
not_in_index_nor_remote(index, collection_name) ==
  /\ collection_name \notin DOMAIN index
  /\ \A c \in DOMAIN remote.colls : remote.colls[c].name # collection_name

\* a check that finds every name missing
not_in_index_ever(index, collection_name) == TRUE

\* sync_collection, line 178: if collection_name not in remote_collections
not_in_index(index, collection_name) == collection_name \notin DOMAIN index

\* sync_collection, lines 177-184: the collection is not in the index
CreateCollection(p) ==
  /\ pc[p] = "dirs"
  /\ \E d \in todo_dirs[p] : \E collection_name \in {prettify_name(d)} :
       /\ not_in_index(remote_collections[p], collection_name)
       /\ \E script \in SyncScripts :
            /\ faults + Cost(script) <= FaultBudget
            /\ faults' = faults + Cost(script)
            /\ \E r \in {create_knowledge_collection(cf_creds, script, remote,
                                                     collection_name)} :
                 /\ remote_collections' =
                      [remote_collections EXCEPT ![p] =
                         [n \in DOMAIN @ \cup {collection_name} |->
                            IF n = collection_name THEN r.value ELSE @[n]]]
                 /\ calls' = [calls EXCEPT ![p] = @ \o Logged(r.http, d, <<>>)]
                 /\ remote' = r.remote
                 /\ item' = [item EXCEPT ![p] = d]
                 /\ todo_dirs' = [todo_dirs EXCEPT ![p] = @ \ {d}]
                 /\ IF "id" \in DOMAIN r.value
                    THEN /\ collection_id' = [collection_id EXCEPT ![p] = r.value.id]
                         /\ pc' = [pc EXCEPT ![p] = "get_collection"]
                         /\ UNCHANGED <<exit_code, reason>>
                    ELSE \* remote_collections[collection_name]['id'] raises
                         \* KeyError, which nothing catches
                         /\ Exits(p, 1, "KeyError")
                         /\ UNCHANGED collection_id
  /\ UNCHANGED <<mode, cf_creds, tree, before, local_files, remote_files,
                 collection_file_ids, todo_files, synced, last>>

\* sync_collection, lines 187-192
file_ids_of(collection_info) ==
  IF "files" \in DOMAIN collection_info
  THEN {file.id : file \in collection_info.files}
  ELSE IF "data" \in DOMAIN collection_info /\ "file_ids" \in DOMAIN collection_info.data
  THEN collection_info.data.file_ids
  ELSE {}

\* a selection that leaves out the files whose name is that of a remote file
\* some collection already holds
collection_local_files_unattached(files, collection_dir) ==
  LET prefix == collection_dir \o <<os_sep>>
      held == UNION {remote.colls[c].file_ids : c \in DOMAIN remote.colls}
  IN  {rel_path \in DOMAIN files :
         /\ str_startswith(rel_path, prefix)
         /\ \A f \in held : remote.files[f].filename # path_basename(rel_path)}

\* a selection whose prefix is the directory name without the separator
collection_local_files_no_separator(files, collection_dir) ==
  {rel_path \in DOMAIN files : str_startswith(rel_path, collection_dir)}

\* a selection whose prefix ends in the wrong separator
collection_local_files_backslash(files, collection_dir) ==
  LET prefix == collection_dir \o <<"\\">>
  IN  {rel_path \in DOMAIN files : str_startswith(rel_path, prefix)}

\* sync_collection, lines 194-202: the keys of collection_local_files
collection_local_files(files, collection_dir) ==
  LET prefix == collection_dir \o <<os_sep>>
  IN  {rel_path \in DOMAIN files : str_startswith(rel_path, prefix)}

\* a sync_collection that may leave the directory it created a collection
\* for and go on with another one
AtGetCollection_any_listed(p) ==
  IF pc[p] \in {"get_collection", "dirs"}
  THEN {d \in todo_dirs[p] : prettify_name(d) \in DOMAIN remote_collections[p]}
       \cup (IF pc[p] = "get_collection" THEN {item[p]} ELSE {})
  ELSE {}

\* the directories sync_collection can be at when it calls getCollection
AtGetCollection(p) ==
  IF pc[p] = "get_collection" THEN {item[p]}
  ELSE IF pc[p] = "dirs"
  THEN {d \in todo_dirs[p] : prettify_name(d) \in DOMAIN remote_collections[p]}
  ELSE {}

\* sync_collection, lines 184-204
GetCollection(p) ==
  /\ \E d \in AtGetCollection(p) :
     \E collection \in {remote_collections[p][prettify_name(d)]},
        selected \in {collection_local_files(local_files[p], d)} :
       /\ "id" \in DOMAIN collection
       /\ \E script \in SyncScripts :
            /\ faults + Cost(script) <= FaultBudget
            /\ faults' = faults + Cost(script)
            /\ \E r \in {get_knowledge_collection(cf_creds, script, remote,
                                                  collection.id)} :
                 /\ collection_file_ids' =
                      [collection_file_ids EXCEPT ![p] = file_ids_of(r.value)]
                 /\ calls' = [calls EXCEPT ![p] = @ \o Logged(r.http, d, <<>>)]
                 /\ remote' = r.remote
       /\ collection_id' = [collection_id EXCEPT ![p] = collection.id]
       /\ item' = [item EXCEPT ![p] = d]
       /\ todo_dirs' = [todo_dirs EXCEPT ![p] = @ \ {d}]
       /\ todo_files' = [todo_files EXCEPT ![p] = selected]
       /\ Continue(p, todo_dirs[p] \ {d}, selected)
  /\ UNCHANGED <<mode, cf_creds, tree, before, local_files, remote_files,
                 remote_collections, synced, last>>

\* sync_file, lines 138-145: the id of the first listed file with the name,
\* 0 when there is none
existing_file_id(files, file_name) ==
  LET hits == {i \in 1..Len(files) : files[i].filename = file_name}
  IN  IF hits = {} THEN 0
      ELSE files[CHOOSE i \in hits : \A j \in hits : i <= j].id

\* a sync_file that takes the first listed file for a match, whatever its name
sync_file_arg_first_listed(files, file_path) ==
  IF files # <<>> THEN FileId(files[1].id) ELSE PathRef(file_path)

\* a sync_file that never looks for the file on the server
sync_file_arg_always_path(files, file_path) == PathRef(file_path)

\* sync_file, lines 147-156: the argument given to add_file_to_knowledge
sync_file_arg(files, file_path) ==
  LET existing == existing_file_id(files, path_basename(file_path))
  IN  IF existing # 0 THEN FileId(existing) ELSE PathRef(file_path)

\* a sync_file that raises when the file could not be added
sync_file_raises_on_failure(r) ==
  IF r.raises # "none" THEN r.raises
  ELSE IF r.value = FALSE THEN "RuntimeError" ELSE "none"

\* sync_file, lines 147-158: the exception that leaves its try block, when
\* add_file_to_knowledge returned r
sync_file_raises(r) == leaves(r.raises, {"Exception"})

\* sync_collection, lines 206-208, and sync_file
SyncFile(p) ==
  /\ pc[p] = "files"
  /\ \E rel_path \in todo_files[p] :
     \E fs \in {LocalPaths(tree)} :
     \E arg \in {sync_file_arg(remote_files[p], local_files[p][rel_path].path)} :
     \E up_script \in IF arg.kind = "path" /\ arg.path \in fs
                      THEN SyncScripts ELSE {CleanScript} :
     \E script \in SyncScripts :
     \E r \in {add_file_to_knowledge(cf_creds, up_script, script, remote,
                                     collection_id[p], arg, fs)} :
     \E cost \in {Cost(up_script) + Cost(script)} :
       \* a script that is not played is the clean one
       /\ r.http[Len(r.http)].op = "POST /api/knowledge/{id}/files" \/ script = CleanScript
       /\ faults + cost <= FaultBudget
       /\ faults' = faults + cost
       /\ calls' = [calls EXCEPT ![p] = @ \o Logged(r.http, item[p], rel_path)]
       /\ remote' = r.remote
       /\ synced' = [synced EXCEPT ![p] = @ \cup {<<item[p], rel_path>>}]
       /\ todo_files' = [todo_files EXCEPT ![p] = @ \ {rel_path}]
       /\ IF sync_file_raises(r) = "none"
          THEN Continue(p, todo_dirs[p], todo_files[p] \ {rel_path})
          ELSE Exits(p, 1, sync_file_raises(r))
  /\ UNCHANGED <<mode, cf_creds, tree, before, local_files, remote_files,
                 remote_collections, todo_dirs, item, collection_id,
                 collection_file_ids, last>>

Next ==
  \E p \in Procs :
    \/ Main(p)
    \/ GetRemoteFiles(p)
    \/ GetRemoteCollections(p)
    \/ CreateCollection(p)
    \/ GetCollection(p)
    \/ SyncFile(p)

Spec == Init /\ [][Next]_vars

\* runs on a tree that holds a path the process is denied
InitDenied ==
  /\ mode = "sequential"
  /\ cf_creds \in BOOLEAN
  /\ tree \in DeniedTrees
  /\ remote \in InitialRemotes
  /\ faults = 0
  /\ InitRuns
  /\ last = NoLast

SpecDenied == InitDenied /\ [][Next]_vars

\* two runs of the script at the same time against one remote service
InitConcurrent ==
  /\ mode = "concurrent"
  /\ cf_creds \in BOOLEAN
  /\ tree \in LocalTrees
  /\ remote \in InitialRemotes
  /\ faults = 0
  /\ InitRuns
  /\ last = NoLast

SpecConcurrent == InitConcurrent /\ [][Next]_vars

(***************************************************************************)
(* The client on its own: one operation of OpenWebUIClient called with     *)
(* arguments that exist remotely or not, on every script of the transport. *)
(***************************************************************************)
\* a path for which os.path.isfile does not hold
f_missing == <<"k", "b", "/", "g", "o", "n", "e">>

CollArgs == DOMAIN remote.colls \cup {remote.next_coll}
FileArgs == {FileId(n) : n \in DOMAIN remote.files \cup {remote.next_file}}
PathArgs == {PathRef(path) : path \in LocalPaths(tree) \cup {f_missing}}

InitClient ==
  /\ mode = "client"
  /\ cf_creds \in BOOLEAN
  /\ tree = TreeCareer
  /\ remote \in InitialRemotes
  /\ faults = 0
  /\ InitRuns
  /\ last = NoLast

\* the operation returned r: record it and let the remote state move
Returned(op, coll, ref, script, up_script, r) ==
  /\ \A i \in 1..Len(r.http) :
       r.http[i].served =>
         ValidRequest(IF i = 1 THEN remote ELSE After(remote, r.http[1]),
                      r.http[i].op, r.http[i].coll, r.http[i].ref)
  /\ last' = [op |-> op, coll |-> coll, ref |-> ref, raises |-> r.raises,
              value |-> r.value, http |-> r.http, script |-> script,
              up_script |-> up_script]
  /\ remote' = r.remote
  /\ UNCHANGED <<mode, cf_creds, tree, faults, run_vars>>

ClientGetKnowledgeCollections ==
  /\ last.op = "none"
  /\ \E script \in Scripts :
       Returned("get_knowledge_collections", 0, NoRef, script, CleanScript,
                get_knowledge_collections(cf_creds, script, remote))

ClientGetKnowledgeCollection ==
  /\ last.op = "none"
  /\ \E script \in Scripts, c \in CollArgs :
       Returned("get_knowledge_collection", c, NoRef, script, CleanScript,
                get_knowledge_collection(cf_creds, script, remote, c))

ClientCreateKnowledgeCollection ==
  /\ last.op = "none"
  /\ \E script \in Scripts :
       Returned("create_knowledge_collection", 0, NoRef, script, CleanScript,
                create_knowledge_collection(cf_creds, script, remote, prettify_name(d_cd)))

ClientDeleteKnowledgeCollection ==
  /\ last.op = "none"
  /\ \E script \in Scripts, c \in CollArgs :
       Returned("delete_knowledge_collection", c, NoRef, script, CleanScript,
                delete_knowledge_collection(cf_creds, script, remote, c))

ClientGetFiles ==
  /\ last.op = "none"
  /\ \E script \in Scripts :
       Returned("get_files", 0, NoRef, script, CleanScript,
                get_files(cf_creds, script, remote))

ClientUploadFile ==
  /\ last.op = "none"
  /\ \E script \in Scripts, x \in PathArgs :
       /\ x.path \in LocalPaths(tree) \/ script = CleanScript
       /\ Returned("upload_file", 0, x, script, CleanScript,
                   upload_file(cf_creds, script, remote, x.path, x.path \in LocalPaths(tree)))

ClientDeleteFile ==
  /\ last.op = "none"
  /\ \E script \in Scripts, f \in FileArgs :
       Returned("delete_file", 0, f, script, CleanScript,
                delete_file(cf_creds, script, remote, f))

ClientAddFileToKnowledge ==
  /\ last.op = "none"
  /\ \E up_script \in Scripts, script \in Scripts, c \in CollArgs, x \in FileArgs \cup PathArgs :
       /\ Cost(up_script) + Cost(script) <= MaxFaults
       /\ (x.kind = "path" /\ x.path \in LocalPaths(tree)) \/ up_script = CleanScript
       /\ \E r \in {add_file_to_knowledge(cf_creds, up_script, script, remote, c, x,
                                          LocalPaths(tree))} :
            \* a script that is not played is the clean one
            /\ (r.http # <<>> /\ r.http[Len(r.http)].op = "POST /api/knowledge/{id}/files")
               \/ script = CleanScript
            /\ Returned("add_file_to_knowledge", c, x, script, up_script, r)

ClientRemoveFileFromKnowledge ==
  /\ last.op = "none"
  /\ \E script \in Scripts, c \in CollArgs, f \in FileArgs :
       Returned("remove_file_from_knowledge", c, f, script, CleanScript,
                remove_file_from_knowledge(cf_creds, script, remote, c, f))

NextClient ==
  \/ ClientGetKnowledgeCollections
  \/ ClientGetKnowledgeCollection
  \/ ClientCreateKnowledgeCollection
  \/ ClientDeleteKnowledgeCollection
  \/ ClientGetFiles
  \/ ClientUploadFile
  \/ ClientDeleteFile
  \/ ClientAddFileToKnowledge
  \/ ClientRemoveFileFromKnowledge

SpecClient == InitClient /\ [][NextClient]_vars

(***************************************************************************)
(* The two pure functions, each applied once to an input of a bounded set  *)
(***************************************************************************)
\* st_size of the files is_supported_file is given: 0..MaxSize
MaxSize == 2

\* length of the directory names prettify_name is given
MaxLen == 3

\* str.upper()
str_upper(s) == [i \in 1..Len(s) |-> upper_char(s[i])]

\* what comes before the extension in the file names
Stems == {<<>>, <<"a">>, <<"R">>, <<".", "a">>, <<"a", ".", "b">>, <<"a", ".">>}

\* the allow-listed extensions in lower and in upper case, one in mixed
\* case, and endings that are on no list
Endings ==
  SUPPORTED_EXTENSIONS \cup {str_upper(e) : e \in SUPPORTED_EXTENSIONS}
    \cup {<<".", "M", "d">>, <<>>, <<".">>, <<".", "e", "x", "e">>, <<"m", "d">>,
          <<".", "m", "d", "x">>, <<".", "m", "d", ".">>}

FileInputs ==
  {[comps |-> <<d_cd, st \o e>>, size |-> n] :
     st \in Stems, e \in Endings, n \in 0..MaxSize} \
  {[comps |-> <<d_cd, <<>>>>, size |-> n] : n \in 0..MaxSize}

\* the characters of the directory names
NameChars == {"a", "B", "-", "_", " "}

RECURSIVE NamesOfLen(_)
NamesOfLen(n) ==
  IF n = 0 THEN {<<>>}
  ELSE {Append(w, ch) : w \in NamesOfLen(n - 1), ch \in NameChars}

career_data == <<"c","a","r","e","e","r","-","d","a","t","a">>
my_folder   == <<"m","y","_","f","o","l","d","e","r">>
ABC         == <<"A","B","C">>

NameInputs ==
  UNION {NamesOfLen(n) : n \in 0..MaxLen} \cup {career_data, my_folder, ABC}

InitPure ==
  /\ mode = "pure"
  /\ cf_creds = FALSE
  /\ tree = TreeCareer
  /\ remote = RemoteEmpty
  /\ faults = 0
  /\ InitRuns
  /\ last = NoLast

\* the function op was given arg and returned value
Applied(op, arg, value) ==
  /\ last' = [NoLast EXCEPT !.op = op, !.ref = arg, !.value = value]
  /\ UNCHANGED <<mode, cf_creds, tree, remote, faults, run_vars>>

IsSupportedFile ==
  /\ last.op = "none"
  /\ \E f \in FileInputs : Applied("is_supported_file", f, is_supported_file(f))

PrettifyName ==
  /\ last.op = "none"
  /\ \E name \in NameInputs : Applied("prettify_name", name, prettify_name(name))

NextPure == IsSupportedFile \/ PrettifyName

SpecPure == InitPure /\ [][NextPure]_vars

(***************************************************************************)
(* Vocabulary of the properties                                            *)
(***************************************************************************)
Upload == "POST /api/files/upload"
Attach == "POST /api/knowledge/{id}/files"
Create == "POST /api/knowledge"
GetOne == "GET /api/knowledge/{id}"

\* run p got past the validation of its arguments
Started(p) == pc[p] # "idle" /\ reason[p] \notin {"config", "base_dir"}

\* run p is over
Over(p) == pc[p] = "exited"

\* run 1 acts alone and no remote call has gone wrong
FirstRunClean == pc[2] = "idle" /\ faults = 0

\* the supported local files that lie in a top-level directory
InDirs(t) ==
  {f \in t.files : is_supported_file(f) /\ Len(f.comps) >= 2 /\ f.comps[1] \in t.dirs}

\* the remote collections called name
Named(name) == {c \in DOMAIN remote.colls : remote.colls[c].name = name}

\* the positions in run p's log of the calls op made for the local file f
CallsFor(p, op, f) ==
  {i \in 1..Len(calls[p]) :
     calls[p][i].op = op /\ calls[p][i].rel_path = path_str(f.comps)}

\* the positions in run p's log of the calls op made for directory d
DirCalls(p, op, d) ==
  {i \in 1..Len(calls[p]) : calls[p][i].op = op /\ calls[p][i].item = d}

(***************************************************************************)
(* C1: from a remote with no collections and no files, and with every      *)
(* remote call succeeding, one run ends with exactly one remote collection *)
(* per distinct prettified top-level directory name, and every supported   *)
(* local file under a top-level directory has been uploaded and attached   *)
(* to the collection of its directory.                                     *)
(***************************************************************************)
C1_Case == Over(1) /\ Started(1) /\ FirstRunClean /\ before[1] = RemoteEmpty

C1_FreshRemoteConverges ==
  C1_Case =>
    /\ exit_code[1] = 0
    /\ \A d \in tree.dirs : Cardinality(Named(prettify_name(d))) = 1
    /\ \A c \in DOMAIN remote.colls :
         \E d \in tree.dirs : remote.colls[c].name = prettify_name(d)
    /\ \A f \in InDirs(tree) :
         \E c \in Named(prettify_name(f.comps[1])),
            u \in CallsFor(1, Upload, f), a \in CallsFor(1, Attach, f) :
              /\ u < a
              /\ calls[1][u].served /\ calls[1][a].served
              /\ calls[1][a].coll = c
              /\ calls[1][a].ref.kind = "id"
              /\ calls[1][a].ref.id \in remote.colls[c].file_ids
              /\ remote.files[calls[1][a].ref.id].filename = path_name(f)

\* career-data/resume.pdf and career-data/notes.txt: one collection, two files
C1_Witness ==
  /\ C1_Case
  /\ tree = TreeCareer
  /\ DOMAIN remote.colls = {1}
  /\ remote.colls[1].name = <<"C", " ", "D">>
  /\ remote.colls[1].file_ids = {1, 2}
  /\ {remote.files[f].filename : f \in {1, 2}} = {f_r, f_n}

(***************************************************************************)
(* C2: for every selected local file whose basename is the filename of a   *)
(* file in the remote file listing, sync_file issues an attach of that     *)
(* remote file's id to the directory's collection and no upload.           *)
(***************************************************************************)
\* the ids of the files in run p's listing that are called name
Listed(p, name) ==
  {remote_files[p][i].id :
     i \in {j \in 1..Len(remote_files[p]) : remote_files[p][j].filename = name}}

\* the log entries of run p for the local file at rel_path
EntriesFor(p, rel_path) ==
  {i \in 1..Len(calls[p]) : calls[p][i].rel_path = rel_path}

C2_ExistingFileAttachedNotUploaded ==
  \A p \in Procs : \A sf \in synced[p] :
    LET name == path_basename(sf[2])
    IN  Listed(p, name) # {} =>
          /\ \A i \in EntriesFor(p, sf[2]) : calls[p][i].op # Upload
          /\ \E i \in EntriesFor(p, sf[2]) :
               /\ calls[p][i].op = Attach
               /\ calls[p][i].ref.kind = "id"
               /\ calls[p][i].ref.id \in Listed(p, name)
               /\ calls[p][i].item = sf[1]
               /\ calls[p][i].coll = remote_collections[p][prettify_name(sf[1])].id

\* the remote has r.pdf as file 2 and the collection C D as collection 1
C2_Witness ==
  /\ tree = TreeCareer
  /\ before[1] = RemoteSeeded
  /\ <<d_cd, path_str(<<d_cd, f_r>>)>> \in synced[1]
  /\ \E i \in 1..Len(calls[1]) :
       /\ calls[1][i].op = Attach
       /\ calls[1][i].ref = FileId(2)
       /\ calls[1][i].coll = 1

(***************************************************************************)
(* C3: two runs in succession against an unchanged local tree: the second  *)
(* run never creates a collection with a name that already exists, and it  *)
(* does not end in an error, whatever the outcome of the remote calls of   *)
(* either run.                                                             *)
(***************************************************************************)
\* the names of the collections that existed when run p started
NamesBefore(p) == {before[p].colls[c].name : c \in DOMAIN before[p].colls}

C3_SecondRunIdempotentUnderAnyOutcome ==
  (Started(1) /\ Over(1) /\ Started(2)) =>
    /\ \A i \in 1..Len(calls[2]) :
         (calls[2][i].op = Create /\ calls[2][i].served)
           => calls[2][i].arg \notin NamesBefore(2)
    /\ Over(2) => exit_code[2] = 0

(***************************************************************************)
(* C4: when the upload of one local file fails with a transport error (and *)
(* the other calls succeed), the run still gives every selected file of    *)
(* that directory and of every other directory to sync_file, and it ends   *)
(* with exit code 0.                                                       *)
(***************************************************************************)
\* the entries of run p's log that are uploads ended by a transport error
FailedUploads(p) ==
  {i \in 1..Len(calls[p]) : calls[p][i].op = Upload /\ calls[p][i].response.raised}

\* every call of run p other than those uploads was answered as expected
OnlyUploadsFailed(p) ==
  \A i \in 1..Len(calls[p]) : i \in FailedUploads(p) \/ calls[p][i].response = Ok200

\* what a run has to give to sync_file
Selected(t) == {<<f.comps[1], path_str(f.comps)>> : f \in InDirs(t)}

C4_Case(p) == Over(p) /\ Started(p) /\ FailedUploads(p) # {} /\ OnlyUploadsFailed(p)

C4_UploadFailureDoesNotStopTheRun ==
  \A p \in Procs :
    C4_Case(p) =>
      /\ exit_code[p] = 0
      /\ synced[p] = Selected(tree)
      /\ todo_dirs[p] = {}

\* the upload of one of two files of a directory failed, the other file
\* was uploaded and attached after it
C4_Witness ==
  /\ C4_Case(1)
  /\ tree = TreeCareer
  /\ \E i \in FailedUploads(1) : \E j \in 1..Len(calls[1]) :
       j > i /\ calls[1][j].op = Attach /\ calls[1][j].served

(***************************************************************************)
(* C5: no failure of a per-collection operation aborts the run: when       *)
(* createCollection or getCollection fails for one directory, no exception *)
(* leaves sync_collection and every remaining directory is processed.      *)
(***************************************************************************)
C5_CollectionFailureIsolated ==
  \A p \in Procs :
    (Over(p) /\ Started(p)) =>
      /\ reason[p] = "none"
      /\ todo_dirs[p] = {}

(***************************************************************************)
(* C6: once the config has loaded and --base-dir is a directory, the       *)
(* process ends with exit code 0 whatever remote calls fail; only a config *)
(* or base-dir validation failure gives a non-zero exit.                   *)
(***************************************************************************)
C6_ExitZeroAfterValidation ==
  \A p \in Procs :
    Over(p) => (exit_code[p] # 0 <=> reason[p] \in {"config", "base_dir"})

(***************************************************************************)
(* C7: for a top-level directory with zero supported local files, sync     *)
(* creates the collection when none has its prettified name, and makes no  *)
(* upload and no attach call for that directory.                           *)
(***************************************************************************)
\* the directories run p has taken from iterdir(), while the run's log lasts
Taken(p) ==
  IF Started(p) /\ Len(calls[p]) >= 2
  THEN tree.dirs \ todo_dirs[p] ELSE {}

\* d holds no supported file
Bare(d) == \A f \in InDirs(tree) : f.comps[1] # d

C7_Case(p, d) == d \in Taken(p) /\ Bare(d)

C7_EmptyDirectoryStillCreated ==
  \A p \in Procs : \A d \in tree.dirs :
    C7_Case(p, d) =>
      /\ DirCalls(p, Upload, d) = {}
      /\ DirCalls(p, Attach, d) = {}
      /\ prettify_name(d) \notin NamesBefore(p) =>
           \E i \in 1..Len(calls[p]) :
             /\ calls[p][i].op = Create
             /\ calls[p][i].arg = prettify_name(d)
             /\ calls[p][i].response = Ok200 => Named(prettify_name(d)) # {}

\* the directory E holds an empty file and an unsupported one
C7_Witness ==
  /\ tree = TreeEmptyDir
  /\ C7_Case(1, d_e)
  /\ Over(1) /\ exit_code[1] = 0
  /\ Named(prettify_name(d_e)) # {}
  /\ \E i \in DirCalls(1, Create, d_e) : calls[1][i].served

(***************************************************************************)
(* C8: a run issues no deleteCollection, deleteFile or detachFile call:    *)
(* the remote collections, the remote files and every collection's file    *)
(* membership only grow, so files present remotely but absent locally stay *)
(* attached.                                                               *)
(***************************************************************************)
Grown(old, new) ==
  /\ DOMAIN old.colls \subseteq DOMAIN new.colls
  /\ DOMAIN old.files \subseteq DOMAIN new.files
  /\ \A c \in DOMAIN old.colls :
       /\ new.colls[c].name = old.colls[c].name
       /\ old.colls[c].file_ids \subseteq new.colls[c].file_ids
  /\ \A f \in DOMAIN old.files : new.files[f] = old.files[f]

C8_NothingRemoved ==
  \A p \in Procs :
    /\ \A i \in 1..Len(calls[p]) :
         calls[p][i].op \notin {"DELETE /api/knowledge/{id}", "DELETE /api/files/{id}",
                                "DELETE /api/knowledge/{id}/files/{file_id}"}
    /\ Started(p) => Grown(before[p], remote)

\* o.md is in the collection C D and in no local tree: it is still there
\* after a run that attached r.pdf to C D
C8_Witness ==
  /\ tree = TreeCareer
  /\ before[1] = RemoteSeeded
  /\ Over(1) /\ exit_code[1] = 0 /\ pc[2] = "idle"
  /\ {1, 2} \subseteq remote.colls[1].file_ids
  /\ remote.files[1].filename = f_o

(***************************************************************************)
(* C9: every client operation, for each failure class (transport error,    *)
(* non-2xx status, unparsable JSON body), raises nothing and returns its   *)
(* benign failure value: an empty list for the list operations, an empty   *)
(* mapping for get, create and upload, false for attach, detach and delete.*)
(***************************************************************************)
ListOps   == {"get_knowledge_collections", "get_files"}
ObjectOps == {"get_knowledge_collection", "create_knowledge_collection", "upload_file"}
BoolOps   == {"delete_knowledge_collection", "delete_file",
              "add_file_to_knowledge", "remove_file_from_knowledge"}

\* the exchange ended in one of the three failure classes
Failed(call) ==
  \/ call.response.raised
  \/ call.response.status < 200 \/ call.response.status >= 300
  \/ ~call.response.json

\* the operation returned the failure value of its kind
Benign(op, value) ==
  IF op \in ListOps THEN Len(value) = 0
  ELSE IF op \in ObjectOps THEN DOMAIN value = {}
  ELSE value = FALSE

C9_FailuresGiveBenignValues ==
  (last.op # "none" /\ \E i \in 1..Len(last.http) : Failed(last.http[i])) =>
    /\ last.raises = "none"
    /\ Benign(last.op, last.value)

(***************************************************************************)
(* C10: for every single client request, a redirect to the access gateway  *)
(* triggers at most one handshake (none without gateway credentials); the  *)
(* request is retried exactly once if and only if the handshake succeeds,  *)
(* and it is never sent more than twice, also when the retry is answered   *)
(* by another gateway redirect.                                            *)
(***************************************************************************)
\* the positions of the requests an exchange sent to the endpoint "to"
SendsTo(call, to) == {i \in 1..Len(call.sends) : call.sends[i].to = to}

\* the first answer to the exchange was a redirect to the gateway
Redirected(call) ==
  /\ call.sends # <<>>
  /\ ~call.sends[1].got.raised
  /\ call.sends[1].got.status = 302 /\ call.sends[1].got.gateway

\* both handshake requests were answered and one of them with 200
HandshakeOk(call) ==
  /\ \A i \in SendsTo(call, "token") \cup SendsTo(call, "certs") :
       ~call.sends[i].got.raised
  /\ SendsTo(call, "token") # {} /\ SendsTo(call, "certs") # {}
  /\ \E i \in SendsTo(call, "token") \cup SendsTo(call, "certs") :
       call.sends[i].got.status = 200

\* as stated: a redirect always gives one handshake and one retry
C10_RedirectAlwaysRetried ==
  \A i \in 1..Len(last.http) :
    LET call == last.http[i]
    IN  /\ Cardinality(SendsTo(call, "request")) <= 2
        /\ Redirected(call) =>
             /\ Cardinality(SendsTo(call, "token")) = 1
             /\ Cardinality(SendsTo(call, "request")) = 2

C10_RetriedOnceIffHandshakeSucceeds ==
  \A i \in 1..Len(last.http) :
    LET call == last.http[i]
        requests == SendsTo(call, "request")
        handshake == SendsTo(call, "token") \cup SendsTo(call, "certs")
    IN  /\ Cardinality(requests) \in {1, 2}
        /\ Cardinality(SendsTo(call, "token")) <= 1
        /\ Cardinality(SendsTo(call, "certs")) <= 1
        /\ handshake # {} <=> (Redirected(call) /\ cf_creds)
        /\ Cardinality(requests) = 2 <=> (Redirected(call) /\ HandshakeOk(call))
        /\ Cardinality(requests) = 2 =>
             /\ requests = {1, Len(call.sends)}
             /\ call.response = call.sends[Len(call.sends)].got
        /\ (Redirected(call) /\ Cardinality(requests) = 1) =>
             call.response = call.sends[1].got

\* the retry of a redirected request was answered by another redirect to the
\* gateway, and that redirect is what the caller got
C10_Witness ==
  /\ last.op = "get_files"
  /\ cf_creds
  /\ Len(last.http) = 1
  /\ Redirected(last.http[1])
  /\ HandshakeOk(last.http[1])
  /\ Len(last.http[1].sends) = 4
  /\ last.http[1].sends[4] = Sent("request", Redirect302)
  /\ last.http[1].response = Redirect302
  /\ Len(last.value) = 0

(***************************************************************************)
(* C11: when a request is still answered by a gateway redirect after the   *)
(* single retry, or the handshake was not possible, the operation returns  *)
(* its empty or false value: attach, detach and the two deletes return     *)
(* false and never report success.                                         *)
(***************************************************************************)
\* what the exchange handed back to the operation is a gateway redirect
StillRedirected(call) ==
  /\ Redirected(call)
  /\ ~call.response.raised
  /\ call.response.status = 302 /\ call.response.gateway

C11_PersistentRedirectIsAFailure ==
  \A i \in 1..Len(last.http) :
    StillRedirected(last.http[i]) =>
      /\ last.raises = "none"
      /\ Benign(last.op, last.value)
      /\ ~last.http[i].served

(***************************************************************************)
(* C12: add_file_to_knowledge(collection_id, x): when x is an existing     *)
(* local path it uploads x and then attaches the id the upload returned,   *)
(* and when the upload fails or returns no id it sends no attach and       *)
(* returns false; when x is not an existing local path it sends exactly    *)
(* one attach with x as the file id and no upload.                         *)
(***************************************************************************)
\* x names a file on the local disk
OnDisk(x) == x.kind = "path" /\ x.path \in LocalPaths(tree)

\* the answer to the upload is a JSON object that holds an id
UploadGaveId(call) ==
  /\ ~call.response.raised
  /\ call.response.status < 400
  /\ call.response.json /\ call.response.shape = "plain"

C12_Case == last.op = "add_file_to_knowledge"

C12_UploadThenAttachOrAttachOnly ==
  C12_Case =>
    IF OnDisk(last.ref)
    THEN /\ Len(last.http) >= 1
         /\ last.http[1].op = Upload
         /\ last.http[1].arg = last.ref.path
         /\ IF UploadGaveId(last.http[1])
            THEN /\ Len(last.http) = 2
                 /\ last.http[2].op = Attach
                 /\ last.http[2].coll = last.coll
                 /\ last.http[2].ref = FileId(remote.next_file - 1)
                 /\ remote.files[remote.next_file - 1].filename
                      = path_basename(last.ref.path)
            ELSE /\ Len(last.http) = 1
                 /\ last.value = FALSE
    ELSE /\ Len(last.http) = 1
         /\ last.http[1].op = Attach
         /\ last.http[1].coll = last.coll
         /\ last.http[1].ref = last.ref

\* r.pdf was uploaded as file 5 and file 5 was attached to collection 1
C12_Witness ==
  /\ C12_Case
  /\ last.ref = PathRef(path_str(<<base_dir, d_cd, f_r>>))
  /\ Len(last.http) = 2
  /\ last.http[1].served /\ last.http[2].served
  /\ last.http[2].ref = FileId(5)
  /\ last.coll = 1
  /\ 5 \in remote.colls[1].file_ids
  /\ last.value = TRUE

(***************************************************************************)
(* C13: the request upload_file sends carries no 'Content-Type:            *)
(* application/json' header once its headers are merged with the default   *)
(* headers of the session.                                                 *)
(***************************************************************************)
\* the headers of the request an exchange puts on the wire
WireHeaders(call) ==
  merged_headers(_setup_session(cf_creds), request_headers(cf_creds, call.headers))

C13_UploadWithoutJsonContentType ==
  \A i \in 1..Len(last.http) :
    last.http[i].op = Upload =>
      \/ "Content-Type" \notin DOMAIN WireHeaders(last.http[i])
      \/ WireHeaders(last.http[i])["Content-Type"] # "application/json"

(***************************************************************************)
(* C14: when the config file is missing or malformed, or --base-dir is     *)
(* missing or not a directory, the process exits with code 1 and the run   *)
(* has issued no remote call at any point.                                 *)
(***************************************************************************)
\* run p failed the validation of its arguments
Rejected(p) == reason[p] \in {"config", "base_dir"}

\* a rejected run is over with status 1 and has neither called the remote
\* service nor taken anything from it
C14_RejectedState ==
  \A p \in Procs :
    Rejected(p) =>
      /\ Over(p) /\ exit_code[p] = 1
      /\ calls[p] = <<>>
      /\ remote_files[p] = <<>> /\ DOMAIN remote_collections[p] = {}

\* the step that rejects a run is the first step of the run and leaves the
\* remote service as it was
C14_RejectingStep ==
  \A p \in Procs :
    (~Rejected(p) /\ reason'[p] \in {"config", "base_dir"}) =>
      /\ pc[p] = "idle"
      /\ remote' = remote /\ faults' = faults

C14_ValidationFailsBeforeAnyRemoteCall ==
  []C14_RejectedState /\ [][C14_RejectingStep]_vars

\* the second run is rejected for its --base-dir after a first run that
\* went through
C14_Witness ==
  /\ Over(1) /\ exit_code[1] = 0
  /\ reason[2] = "base_dir" /\ exit_code[2] = 1
  /\ remote.colls # <<>>

(***************************************************************************)
(* C15: is_supported_file returns true exactly when the basename does not  *)
(* start with '.', the extension compared case-insensitively is on the     *)
(* allow-list, and the file is not zero bytes.                             *)
(***************************************************************************)
\* name ends, whatever the case, with the allow-listed extension e, and
\* has something before it
EndsWith(name, e) ==
  /\ Len(name) > Len(e)
  /\ \A i \in 1..Len(e) : lower_char(name[Len(name) - Len(e) + i]) = e[i]

Hidden(name) == name # <<>> /\ name[1] = "."

C15_Case == last.op = "is_supported_file"

C15_SupportedExactlyWhen ==
  C15_Case =>
    LET name == last.ref.comps[Len(last.ref.comps)]
    IN  last.value <=>
          /\ ~Hidden(name)
          /\ \E e \in SUPPORTED_EXTENSIONS : EndsWith(name, e)
          /\ last.ref.size # 0

\* R.PDF of one byte is supported
C15_Witness ==
  /\ C15_Case
  /\ last.ref = [comps |-> <<d_cd, <<"R", ".", "P", "D", "F">>>>, size |-> 1]
  /\ last.value = TRUE

(***************************************************************************)
(* C16: prettify_name replaces every '-' and '_' by a space and returns    *)
(* the words joined by single spaces, each word with its first letter      *)
(* upper-cased and the rest lower-cased, whatever the case of the input.   *)
(***************************************************************************)
Separators == {"-", "_", " "}

\* the positions of s that hold a character of a word
WordPos(s) == {i \in 1..Len(s) : s[i] \notin Separators}

\* the k-th smallest element of the set of positions S
Nth(S, k) == CHOOSE i \in S : Cardinality({j \in S : j < i}) = k - 1

\* position i of s is where a word begins
WordStart(s, i) == i = 1 \/ s[i - 1] \in Separators

C16_Case == last.op = "prettify_name"

C16_PrettifyCapitalizesWords ==
  C16_Case =>
    LET name == last.ref
        out  == last.value
    IN  /\ Cardinality(WordPos(out)) = Cardinality(WordPos(name))
        /\ \A k \in 1..Cardinality(WordPos(name)) :
             LET a == Nth(WordPos(name), k)
                 b == Nth(WordPos(out), k)
             IN  /\ WordStart(out, b) <=> WordStart(name, a)
                 /\ out[b] = IF WordStart(name, a) THEN upper_char(name[a])
                             ELSE lower_char(name[a])
        /\ \A i \in 1..Len(out) :
             out[i] \in Separators =>
               /\ out[i] = " "
               /\ i > 1 /\ i < Len(out)
               /\ out[i - 1] # " " /\ out[i + 1] # " "
        /\ name = career_data =>
             out = <<"C","a","r","e","e","r"," ","D","a","t","a">>
        /\ name = my_folder => out = <<"M","y"," ","F","o","l","d","e","r">>
        /\ name = ABC => out = <<"A","b","c">>

\* 'ABC' gives 'Abc'
C16_Witness ==
  /\ C16_Case
  /\ last.ref = ABC
  /\ last.value = <<"A", "b", "c">>

(***************************************************************************)
(* C17: two runs at the same time on a brand-new directory can both find   *)
(* its name absent from their listing and both create it: nothing between  *)
(* the check of the name and the create looks at what exists by then, on   *)
(* the client or on the service, so two collections of one name can arise. *)
(***************************************************************************)
\* run p is about to take a directory whose name its index does not hold
AboutToCreate(p) ==
  /\ pc[p] = "dirs"
  /\ \E d \in todo_dirs[p] : prettify_name(d) \notin DOMAIN remote_collections[p]

\* the step is a create of run p that the service carried out
CreateServed(p) ==
  /\ Len(calls'[p]) = Len(calls[p]) + 1
  /\ calls'[p][Len(calls'[p])].op = Create
  /\ calls'[p][Len(calls'[p])].served

\* the create is open to a run whatever the service holds by then
C17_CreateNeverBlocked ==
  \A p \in Procs : AboutToCreate(p) => ENABLED CreateCollection(p)

\* a create that is carried out adds a collection of the name, also when
\* there is one already
C17_CreateAlwaysAdds ==
  \A p \in Procs :
    CreateServed(p) =>
      LET name == calls'[p][Len(calls'[p])].arg
      IN  /\ DOMAIN remote'.colls = DOMAIN remote.colls \cup {remote.next_coll}
          /\ remote.next_coll \notin DOMAIN remote.colls
          /\ remote'.colls[remote.next_coll].name = name
          /\ name \notin DOMAIN remote_collections[p]

C17_NoExistenceLock ==
  []C17_CreateNeverBlocked /\ [][C17_CreateAlwaysAdds]_vars

\* both runs listed the collections before either created 'C D', every call
\* was answered, and the service holds 'C D' twice
C17_Witness ==
  /\ mode = "concurrent" /\ faults = 0
  /\ tree = TreeCareer
  /\ before[1] = RemoteEmpty /\ before[2] = RemoteEmpty
  /\ Cardinality(Named(prettify_name(d_cd))) = 2
  /\ \A p \in Procs :
       \E i \in DirCalls(p, Create, d_cd) :
         /\ calls[p][i].served
         /\ calls[p][2].op = "GET /api/knowledge" /\ calls[p][2].response = Ok200

(***************************************************************************)
(* C18: within one run create_knowledge_collection is called only for a    *)
(* name absent from the index, and its result is put into the index: it is *)
(* called at most once per prettified name per run, also when several      *)
(* directories prettify to one name, and never for a name of the listing   *)
(* fetched at the start of the run.                                        *)
(***************************************************************************)
\* the positions of the creates in run p's log
Creates(p) == {i \in 1..Len(calls[p]) : calls[p][i].op = Create}

\* the names in the listing run p fetched: those the service held, when the
\* listing was answered with a list the client can read
ListedNames(p) ==
  IF /\ Len(calls[p]) >= 2
     /\ calls[p][2].op = "GET /api/knowledge"
     /\ calls[p][2].response \in {Ok200, Wrapped200}
  THEN NamesBefore(p) ELSE {}

C18_CreateOncePerName ==
  \A p \in Procs :
    /\ \A i \in Creates(p) : \A j \in Creates(p) :
         calls[p][i].arg = calls[p][j].arg => i = j
    /\ \A i \in Creates(p) :
         /\ calls[p][i].arg \notin ListedNames(p)
         /\ calls[p][i].arg = prettify_name(calls[p][i].item)
         /\ calls[p][i].arg \in DOMAIN remote_collections[p]
         /\ calls[p][i].response = Ok200 =>
              /\ "id" \in DOMAIN remote_collections[p][calls[p][i].arg]
              /\ remote_collections[p][calls[p][i].arg].id \in Named(calls[p][i].arg)

\* c-d and c_d both give 'C D': the run created it once and went through
\* both directories
C18_Witness ==
  /\ tree = TreeSameName
  /\ before[1] = RemoteEmpty
  /\ Over(1) /\ exit_code[1] = 0 /\ pc[2] = "idle"
  /\ Cardinality(Creates(1)) = 1
  /\ DirCalls(1, GetOne, d_cd) # {} /\ DirCalls(1, GetOne, d_c_d) # {}
  /\ Cardinality(Named(prettify_name(d_cd))) = 1

(***************************************************************************)
(* C19: for each selected local file with no basename match in the file    *)
(* listing taken at the start of the run, sync issues exactly one upload   *)
(* of that file followed, when the upload returns an id, by exactly one    *)
(* attach of the new id to the directory's collection; the listing is not  *)
(* updated during the run, so a run makes as many uploads as it has        *)
(* selected files without a match, also when they share a basename.        *)
(***************************************************************************)
\* the files given to sync_file whose basename the listing does not hold
Unmatched(p) == {sf \in synced[p] : Listed(p, path_basename(sf[2])) = {}}

\* the positions in run p's log of the calls op made for the file at rel_path
FileCalls(p, op, rel_path) == {i \in EntriesFor(p, rel_path) : calls[p][i].op = op}

C19_OneUploadPerUnmatchedFile ==
  \A p \in Procs :
    /\ Cardinality({i \in 1..Len(calls[p]) : calls[p][i].op = Upload})
         = Cardinality(Unmatched(p))
    /\ \A sf \in Unmatched(p) :
         LET ups == FileCalls(p, Upload, sf[2])
             ats == FileCalls(p, Attach, sf[2])
         IN  /\ Cardinality(ups) = 1
             /\ \A u \in ups :
                  /\ path_basename(calls[p][u].arg) = path_basename(sf[2])
                  /\ IF UploadGaveId(calls[p][u])
                     THEN /\ Cardinality(ats) = 1
                          /\ \A a \in ats :
                               /\ a = u + 1
                               /\ calls[p][a].ref.kind = "id"
                               /\ calls[p][a].ref.id \notin DOMAIN before[p].files
                               /\ remote.files[calls[p][a].ref.id].filename
                                    = path_basename(sf[2])
                               /\ calls[p][a].item = sf[1]
                               /\ calls[p][a].coll
                                    = remote_collections[p][prettify_name(sf[1])].id
                     ELSE ats = {}

\* a/x.MD and ab/s/x.MD were both uploaded, as the files 1 and 2, and each
\* was attached to the collection of its directory
C19_Witness ==
  /\ tree = TreeMixed
  /\ before[1] = RemoteEmpty
  /\ Over(1) /\ exit_code[1] = 0 /\ pc[2] = "idle"
  /\ Cardinality(Unmatched(1)) = 2
  /\ remote.files[1].filename = f_x /\ remote.files[2].filename = f_x
  /\ \E c1, c2 \in DOMAIN remote.colls :
       /\ c1 # c2
       /\ remote.colls[c1].file_ids \cup remote.colls[c2].file_ids = {1, 2}
       /\ remote.colls[c1].file_ids # remote.colls[c2].file_ids

(***************************************************************************)
(* C20: an attach is issued for every selected local file that has a       *)
(* basename match, also when the matched remote file is already among the  *)
(* file ids get_knowledge_collection returned: the membership never        *)
(* suppresses an attach, and a run against a fully synced tree issues one  *)
(* attach per selected local file.                                         *)
(***************************************************************************)
\* every selected file of the tree has a match in the listing of run p
AllMatched(p) ==
  \A f \in InDirs(tree) : Listed(p, path_basename(path_str(f.comps))) # {}

\* the attaches of run p
Attaches(p) == {i \in 1..Len(calls[p]) : calls[p][i].op = Attach}

C20_AttachNotSuppressedByMembership ==
  \A p \in Procs :
    /\ \A sf \in synced[p] \ Unmatched(p) :
         /\ Cardinality(FileCalls(p, Attach, sf[2])) = 1
         /\ \A a \in FileCalls(p, Attach, sf[2]) :
              calls[p][a].ref.id \in Listed(p, path_basename(sf[2]))
    /\ (Over(p) /\ exit_code[p] = 0 /\ calls[p] # <<>> /\ AllMatched(p)) =>
         /\ Cardinality(Attaches(p)) = Cardinality(InDirs(tree))
         /\ \A f \in InDirs(tree) :
              Cardinality(FileCalls(p, Attach, path_str(f.comps))) = 1

\* the second run found r.pdf and n.txt as the files 1 and 2 of 'C D', was
\* told so by get_knowledge_collection, and attached both again
C20_Witness ==
  /\ tree = TreeCareer
  /\ Over(2) /\ exit_code[2] = 0 /\ faults = 0
  /\ DOMAIN before[2].colls = {1}
  /\ before[2].colls[1].file_ids = {1, 2}
  /\ collection_file_ids[2] = {1, 2}
  /\ {calls[2][a].ref.id : a \in Attaches(2)} = {1, 2}
  /\ Cardinality(Attaches(2)) = 2
  /\ \A a \in Attaches(2) : calls[2][a].served /\ calls[2][a].coll = 1

(***************************************************************************)
(* C21: in one run each supported local file under a top-level directory   *)
(* is selected by exactly one directory, the one its first path component  *)
(* names (a directory 'a' never selects the files of a sibling 'ab'), and  *)
(* is given to sync_file exactly once; supported files directly in the     *)
(* scan root are selected by no directory and cause no upload or attach.   *)
(***************************************************************************)
\* the log of run p holds the calls of exactly one sync_file for rel_path:
\* one attach, or one upload, or one upload and then its attach
SyncedOnce(p, rel_path) ==
  LET ups == FileCalls(p, Upload, rel_path)
      ats == FileCalls(p, Attach, rel_path)
  IN  /\ EntriesFor(p, rel_path) = ups \cup ats
      /\ Cardinality(ups) <= 1 /\ Cardinality(ats) <= 1
      /\ ups \cup ats # {}
      /\ \A u \in ups : \A a \in ats : a = u + 1

\* run p went through the whole tree and its log lasts
Complete(p) == Over(p) /\ exit_code[p] = 0 /\ calls[p] # <<>>

C21_SelectedByOwnDirectoryOnce ==
  \A p \in Procs :
    /\ synced[p] \subseteq Selected(tree)
    /\ \A sf \in synced[p] : SyncedOnce(p, sf[2])
    /\ \A i \in 1..Len(calls[p]) :
         calls[p][i].rel_path # <<>> =>
           <<calls[p][i].item, calls[p][i].rel_path>> \in synced[p]
    /\ \A i \in 1..Len(calls[p]) :
         calls[p][i].op \in {Upload, Attach} => calls[p][i].rel_path # <<>>
    /\ Complete(p) => synced[p] = Selected(tree)

\* a/x.MD went to 'a' and ab/s/x.MD to 'ab'; t.md in the scan root, the
\* hidden a/.h.md and the empty ab/z.md went nowhere
C21_Witness ==
  /\ tree = TreeMixed
  /\ Complete(1) /\ pc[2] = "idle"
  /\ synced[1] = {<<d_a, path_str(<<d_a, f_x>>)>>,
                  <<d_ab, path_str(<<d_ab, d_s, f_x>>)>>}
  /\ path_str(<<f_t>>) \in DOMAIN local_files[1]
  /\ EntriesFor(1, path_str(<<f_t>>)) = {}
  /\ \E i \in FileCalls(1, Attach, path_str(<<d_ab, d_s, f_x>>)) : calls[1][i].served

(***************************************************************************)
(* C22: within one run the remote calls are ordered: the two listings are  *)
(* each called once and before any mutating call; for each top-level       *)
(* directory the create (when needed) precedes its get_knowledge_collection*)
(* call, which precedes every upload or attach for that directory; and all *)
(* calls of one directory complete before any call of the next.            *)
(***************************************************************************)
\* the place of a call in the order of the calls of one directory
Rank(op) ==
  IF op = Create THEN 1 ELSE IF op = GetOne THEN 2
  ELSE IF op \in {Upload, Attach} THEN 3 ELSE 0

C22_CallsOrdered ==
  \A p \in Procs :
    LET log == calls[p]
        n   == Len(calls[p])
    IN  /\ n >= 1 => log[1].op = "GET /api/files" /\ log[1].item = <<>>
        /\ n >= 2 => log[2].op = "GET /api/knowledge" /\ log[2].item = <<>>
        /\ \A i \in 3..n : Rank(log[i].op) > 0 /\ log[i].item \in tree.dirs
        \* the calls of a directory are not interleaved with another's
        /\ \A i \in 3..n : \A k \in i..n :
             log[i].item = log[k].item =>
               \A j \in i..k : log[j].item = log[i].item
        \* create, then get, then the files
        /\ \A i \in 3..n : \A j \in i..n :
             (i < j /\ log[i].item = log[j].item) =>
               /\ Rank(log[i].op) <= Rank(log[j].op)
               /\ Rank(log[j].op) <= 2 => Rank(log[i].op) < Rank(log[j].op)
        \* a directory's first call is its create or its get, and the get
        \* comes right after the create
        /\ \A i \in 3..n :
             log[i - 1].item # log[i].item => Rank(log[i].op) \in {1, 2}
        /\ \A i \in 3..n :
             (log[i].op = Create /\ i < n) =>
               log[i + 1].op = GetOne /\ log[i + 1].item = log[i].item

\* c-d: create, get, upload, attach; then E: create, get
C22_Witness ==
  /\ tree = TreeEmptyDir
  /\ before[1] = RemoteEmpty
  /\ Complete(1) /\ pc[2] = "idle"
  /\ Len(calls[1]) = 8
  /\ [i \in 3..8 |-> calls[1][i].op]
       = [i \in 3..8 |-> <<"", "", Create, GetOne, Upload, Attach, Create, GetOne>>[i]]
  /\ \A i \in 3..6 : calls[1][i].item = d_cd
  /\ \A i \in 7..8 : calls[1][i].item = d_e

(***************************************************************************)
(* C23: sync reaches a fixed point: after a run in which every remote call *)
(* succeeded, a second run against the unchanged local tree issues no      *)
(* create and no upload and leaves the remote state (collections, files    *)
(* and every collection's file membership) exactly as the first run left   *)
(* it, also when two local files in different directories share a          *)
(* basename.                                                               *)
(***************************************************************************)
\* both runs went through the tree and every remote call was answered
BothRunsClean ==
  /\ faults = 0
  /\ Over(1) /\ exit_code[1] = 0
  /\ Over(2) /\ exit_code[2] = 0 /\ calls[2] # <<>>

C23_SecondRunChangesNothing ==
  BothRunsClean =>
    /\ \A i \in 1..Len(calls[2]) : calls[2][i].op \notin {Create, Upload}
    /\ remote = before[2]

(***************************************************************************)
(* C24: get_local_files either returns the mapping of every supported      *)
(* regular file under the root or fails as a whole: an error while walking *)
(* the tree, such as an unreadable subdirectory, is fatal and never yields *)
(* a partial mapping that the run then syncs.                              *)
(***************************************************************************)
\* the relative paths of all the supported regular files of the tree
AllSupported(t) == {path_str(f.comps) : f \in {g \in t.files : is_supported_file(g)}}

\* the scan of run p failed as a whole: the run ended on the exception
\* without a remote call
ScanFailed(p) ==
  /\ Over(p) /\ exit_code[p] = 1 /\ reason[p] = "PermissionError"
  /\ calls[p] = <<>> /\ DOMAIN local_files[p] = {}

\* run p has sent a file of its mapping to the remote service
Syncs(p) == \E i \in DOMAIN calls[p] : calls[p][i].op \in {Upload, Attach}

C24_ScanAllOrNothing ==
  \A p \in Procs :
    (Started(p) /\ tree.denied # {}) =>
      \/ ScanFailed(p)
      \/ Syncs(p) => DOMAIN local_files[p] = AllSupported(tree)

====
